---- MODULE Spec2Model ----
(***************************************************************************)
(* Model of narwhal/network/src/client.rs: the NetworkClient handler       *)
(* registry (Inner behind Arc<RwLock<..>>), its three registration calls,  *)
(* shutdown, and the three bounded-retry lookups.                          *)
(*                                                                         *)
(* Every clone of a NetworkClient shares the same Arc, so the model has    *)
(* one `inner` and one `lock`; tasks stand for holders of clones.          *)
(* A registration or shutdown call is two steps: taking the write guard,   *)
(* then the mutation together with the drop of the guard at the end of     *)
(* the function.  A lookup attempt is two steps: taking the read guard,    *)
(* then the body of the inner block (which drops the guard on every        *)
(* path); the sleep is a state of its own.                                 *)
(* The facade calls (synchronize, report_our_batch, report_others_batch)   *)
(* are a lookup followed by one forward to the handler found.              *)
(*                                                                         *)
(* The module also models crates/sui-proxy/src/histogram_relay.rs: the     *)
(* HistogramRelay queue, submit, export and the /metrics handler.          *)
(***************************************************************************)
EXTENDS Naturals, FiniteSets, Sequences, TLC

\* ------------------------------------------------------------------ bounds

\* `for _ in 0..10` in each lookup.
MaxAttempts == 10

\* Total number of registration / shutdown calls made in one behaviour of
\* Spec, and of SpecLock.
MaxCalls == 3
MaxLockCalls == 2
MaxFairCalls == 2
MaxFacadeCalls == 2

\* Tasks that each run one lookup, and tasks that issue mutating calls.
\* Spec runs one lookup against the writers; SpecLock runs both lookups.
LookupTasks == {"l1", "l2"}
SoloTasks == {"l1"}
WriterTasks == {"m1", "m2"}

\* Worker identities (those SpecLock uses), identities a client can be
\* constructed with, handlers.
Workers == {"w1", "w2"}
LockWorkers == {"w1"}
Primaries == {"p1", "p2"}
Handlers == {"hA", "hB"}

None == "None"

\* Messages a facade call can carry, and errors a handler can answer with.
Messages == {"mA", "mB"}
HandlerErrors == {"e1"}

\* The keys a lookup or a registration can name: the single worker-to-primary
\* slot, or a worker identity in one of the two maps.
TargetsOf(W) ==
    {<<"w2p", None>>} \cup {<<r, w>> : r \in {"p2w", "w2w"}, w \in W}

Targets == TargetsOf(Workers)

VARIABLES
    inner,      \* the Inner struct
    lock,       \* the RwLock: tasks holding a read guard / the write guard
    look,       \* per lookup task: position in the lookup and its result
    mut,        \* per writer task: the call it is inside, if any
    calls,      \* number of mutating calls begun
    given_id,   \* history: the identity NetworkClient::new was called with
    lastReg,    \* history: last handler registered for each target since
                \* the containers were last cleared
    noops,      \* history: number of shutdown calls that returned early
    face,       \* per lookup task: the facade call that runs the lookup
    relay,      \* the HistogramRelay's VecDeque
    served,     \* history of the relay: batches submitted, batches popped,
                \* responses given
    scrape      \* per request task: the /metrics request it is inside

clientVars == <<inner, lock, look, mut, calls, given_id, lastReg, noops>>

vars == <<inner, lock, look, mut, calls, given_id, lastReg, noops,
          face, relay, served, scrape>>

\* ------------------------------------------------------------ the registry

EmptyMap == [w \in Workers |-> None]

\* NetworkClient::new
NewInner(primary_peer_id) ==
    [ primary_peer_id               |-> primary_peer_id,
      worker_to_primary_handler     |-> None,
      primary_to_own_worker_handler |-> EmptyMap,
      worker_to_own_worker_handler  |-> EmptyMap,
      shutdown                      |-> FALSE ]

\* Variant: an insert that keeps an entry already present.
InsertIfAbsent(map, worker_id, handler) ==
    IF map[worker_id] = None THEN [map EXCEPT ![worker_id] = handler] ELSE map

\* BTreeMap::insert: installs or overwrites.
Insert(map, worker_id, handler) == [map EXCEPT ![worker_id] = handler]

\* Variant: a registration that rebuilds the struct as new() does.
WithWorkerToPrimaryRebuilt(in, handler) ==
    [NewInner(in.primary_peer_id) EXCEPT !.worker_to_primary_handler = handler]

\* The assignments of the three registration calls.
WithWorkerToPrimary(in, handler) ==
    [in EXCEPT !.worker_to_primary_handler = handler]

WithPrimaryToWorker(in, worker_id, handler) ==
    [in EXCEPT !.primary_to_own_worker_handler = Insert(@, worker_id, handler)]

\* Variant: the worker-to-worker registration also fills the other map.
WithWorkerToWorkerBoth(in, worker_id, handler) ==
    [in EXCEPT
        !.worker_to_own_worker_handler = Insert(@, worker_id, handler),
        !.primary_to_own_worker_handler = Insert(@, worker_id, handler)]

WithWorkerToWorker(in, worker_id, handler) ==
    [in EXCEPT !.worker_to_own_worker_handler = Insert(@, worker_id, handler)]

\* Variant: the worker maps are read without regard to the key.
GetHandlerAnyWorker(in, role, peer_id) ==
    LET any(map) == IF \E w \in Workers : map[w] # None
                    THEN map[CHOOSE w \in Workers : map[w] # None]
                    ELSE None
    IN CASE role = "w2p" -> in.worker_to_primary_handler
         [] role = "p2w" -> any(in.primary_to_own_worker_handler)
         [] role = "w2w" -> any(in.worker_to_own_worker_handler)

\* Variant: the primary-to-worker lookup reads the worker-to-worker map.
GetHandlerOtherMap(in, role, peer_id) ==
    CASE role = "w2p" -> in.worker_to_primary_handler
      [] role = "p2w" -> in.worker_to_own_worker_handler[peer_id]
      [] role = "w2w" -> in.worker_to_own_worker_handler[peer_id]

\* BTreeMap::get / the Option field, by role.
GetHandler(in, role, peer_id) ==
    CASE role = "w2p" -> in.worker_to_primary_handler
      [] role = "p2w" -> in.primary_to_own_worker_handler[peer_id]
      [] role = "w2w" -> in.worker_to_own_worker_handler[peer_id]

\* Variant: shutdown clears the containers and leaves the flag as it was.
ShutdownInnerKeepsFlag(in) ==
    [ primary_peer_id               |-> in.primary_peer_id,
      worker_to_primary_handler     |-> None,
      primary_to_own_worker_handler |-> EmptyMap,
      worker_to_own_worker_handler  |-> EmptyMap,
      shutdown                      |-> in.shutdown ]

\* Variant: shutdown resets the identity along with the containers.
ShutdownInnerDropsId(in) ==
    [ primary_peer_id               |-> None,
      worker_to_primary_handler     |-> None,
      primary_to_own_worker_handler |-> EmptyMap,
      worker_to_own_worker_handler  |-> EmptyMap,
      shutdown                      |-> TRUE ]

\* The struct assignment of shutdown().
ShutdownInner(in) ==
    [ primary_peer_id               |-> in.primary_peer_id,
      worker_to_primary_handler     |-> None,
      primary_to_own_worker_handler |-> EmptyMap,
      worker_to_own_worker_handler  |-> EmptyMap,
      shutdown                      |-> TRUE ]

\* Variant: shutdown without the early return.
ShutdownNeverReturnsEarly(in) == FALSE

\* `if inner.shutdown { return; }`
ShutdownReturnsEarly(in) == in.shutdown

ContainersEmpty(in) ==
    /\ in.worker_to_primary_handler = None
    /\ in.primary_to_own_worker_handler = EmptyMap
    /\ in.worker_to_own_worker_handler = EmptyMap

\* ---------------------------------------------------------------- the lock

\* Variant: a read guard handed out whatever the lock's state.
CanReadAlways(lk) == TRUE

\* RwLock::read succeeds when no task holds the write guard.
CanRead(lk) == lk.writers = {}

\* RwLock::write succeeds when no task holds any guard.
CanWrite(lk) == lk.writers = {} /\ lk.readers = {}

\* Variant: the read guard is still held when the block is left.
ReadersKeptAcrossSleep(lk, l) == lk.readers

\* The read guard is dropped at the end of the inner block, before the sleep.
ReadersAfterBlock(lk, l) == lk.readers \ {l}

\* -------------------------------------------------------------- the lookups

NoResult == [kind |-> "None", val |-> None]
Ok(h) == [kind |-> "Ok", val |-> h]
ShuttingDown == [kind |-> "ShuttingDown", val |-> None]
WorkerNotStarted(id) == [kind |-> "WorkerNotStarted", val |-> id]
PrimaryNotStarted(id) == [kind |-> "PrimaryNotStarted", val |-> id]

\* Variant: the container is tested before the shutdown flag.
ReadStepContainerFirst(in, role, peer_id) ==
    IF GetHandler(in, role, peer_id) # None
    THEN Ok(GetHandler(in, role, peer_id))
    ELSE IF in.shutdown THEN ShuttingDown ELSE NoResult

\* The body of the inner block of a lookup, under the read guard: the
\* shutdown flag is tested first, then the container.
ReadStep(in, role, peer_id) ==
    IF in.shutdown THEN ShuttingDown
    ELSE IF GetHandler(in, role, peer_id) # None
         THEN Ok(GetHandler(in, role, peer_id))
         ELSE NoResult

\* Variant: a loop that does not count its iterations.
LoopNeverExhausted(i) == FALSE

\* Variant: a loop one iteration short.
LoopExhaustedEarly(i) == i >= MaxAttempts - 1

\* The loop `for _ in 0..10` is over once the index reaches 10.
LoopExhausted(i) == i >= MaxAttempts

\* Variant: the state is looked at once more after the loop.
NotStartedErrorRechecked(in, role, peer_id) ==
    IF in.shutdown THEN ShuttingDown
    ELSE IF GetHandler(in, role, peer_id) # None
         THEN Ok(GetHandler(in, role, peer_id))
         ELSE IF role = "w2p" THEN PrimaryNotStarted(in.primary_peer_id)
              ELSE WorkerNotStarted(peer_id)

\* Variant: the primary lookup ends as the worker lookups do.
NotStartedErrorWorkerOnly(in, role, peer_id) == WorkerNotStarted(peer_id)

\* The error after the loop.
NotStartedError(in, role, peer_id) ==
    IF role = "w2p" THEN PrimaryNotStarted(in.primary_peer_id)
    ELSE WorkerNotStarted(peer_id)

IdleLookup ==
    [ pc |-> "idle", role |-> None, peer_id |-> None, i |-> 0,
      attempts |-> 0, sleeps |-> 0, result |-> NoResult,
      \* history of the lookup, frozen when it returns
      startShut |-> FALSE, startVal |-> None,
      regs |-> 0, shut |-> FALSE, regSince |-> None, readLast |-> None ]

Done(l) == look[l].pc = "done"

\* --------------------------------------------------------------------- Init

\* The /metrics requests that can be in flight, and a request task that is
\* in none.
ScrapeTasks == {"s1", "s2"}

IdleScrape == [pc |-> "idle", result |-> NoResult, npop |-> 0, nsub |-> 0]

NoCall ==
    [ pc |-> "none", method |-> None, msg |-> None, reply |-> None,
      ret |-> NoResult, sent |-> <<>> ]

Init ==
    /\ face = [l \in LookupTasks |-> NoCall]
    /\ relay = <<>>
    /\ served = [submitted |-> <<>>, popped |-> <<>>, responses |-> {},
                 exports |-> 0]
    /\ scrape = [t \in ScrapeTasks |-> IdleScrape]
    /\ given_id \in Primaries
    /\ inner = NewInner(given_id)
    /\ lock = [readers |-> {}, writers |-> {}]
    /\ look = [l \in LookupTasks |-> IdleLookup]
    /\ mut = [m \in WriterTasks |-> [pc |-> "idle", call |-> None]]
    /\ calls = 0
    /\ lastReg = [t \in Targets |-> None]
    /\ noops = 0

\* ------------------------------------------------- history kept for lookups

\* A registration of `handler` under `target` is noted by every lookup for
\* that target that is under way; it counts as made before the last attempt
\* when the lookup has taken the read guard fewer than MaxAttempts times.
NoteRegistration(lk, target, handler) ==
    [l \in LookupTasks |->
        IF lk[l].pc \in {"try", "read", "sleep", "exhausted"}
           /\ <<lk[l].role, lk[l].peer_id>> = target
        THEN [lk[l] EXCEPT
                !.regs = 1,
                !.regSince = IF lk[l].attempts < MaxAttempts
                             THEN handler ELSE @]
        ELSE lk[l]]

\* A shutdown that took effect is noted by every lookup under way.
NoteShutdown(lk) ==
    [l \in LookupTasks |->
        IF lk[l].pc \in {"try", "read", "sleep", "exhausted"}
        THEN [lk[l] EXCEPT !.shut = TRUE]
        ELSE lk[l]]

\* ------------------------------------------------------- mutating operations

Calls == {"set_worker_to_primary", "set_primary_to_worker",
          "set_worker_to_worker", "shutdown"}

\* `let mut inner = self.inner.write();` of a registration or of shutdown.
WriteLock(m, budget) ==
    /\ mut[m].pc = "idle"
    /\ calls < budget
    /\ CanWrite(lock)
    /\ \E c \in Calls : mut' = [mut EXCEPT ![m] = [pc |-> "locked", call |-> c]]
    /\ lock' = [lock EXCEPT !.writers = @ \cup {m}]
    /\ calls' = calls + 1
    /\ UNCHANGED <<inner, look, given_id, lastReg, noops, face, relay, served, scrape>>

\* The guard is dropped when the function returns.
Unlock(m) ==
    /\ mut' = [mut EXCEPT ![m] = [pc |-> "idle", call |-> None]]
    /\ lock' = [lock EXCEPT !.writers = @ \ {m}]
    /\ UNCHANGED <<calls, given_id, face, relay, served, scrape>>

set_worker_to_primary_local_handler(m) ==
    /\ mut[m].pc = "locked"
    /\ mut[m].call = "set_worker_to_primary"
    /\ \E handler \in Handlers :
          /\ inner' = WithWorkerToPrimary(inner, handler)
          /\ look' = NoteRegistration(look, <<"w2p", None>>, handler)
          /\ lastReg' = [lastReg EXCEPT ![<<"w2p", None>>] = handler]
    /\ UNCHANGED noops
    /\ Unlock(m)

set_primary_to_worker_local_handler(m, W) ==
    /\ mut[m].pc = "locked"
    /\ mut[m].call = "set_primary_to_worker"
    /\ \E worker_id \in W, handler \in Handlers :
          /\ inner' = WithPrimaryToWorker(inner, worker_id, handler)
          /\ look' = NoteRegistration(look, <<"p2w", worker_id>>, handler)
          /\ lastReg' = [lastReg EXCEPT ![<<"p2w", worker_id>>] = handler]
    /\ UNCHANGED noops
    /\ Unlock(m)

set_worker_to_worker_local_handler(m, W) ==
    /\ mut[m].pc = "locked"
    /\ mut[m].call = "set_worker_to_worker"
    /\ \E worker_id \in W, handler \in Handlers :
          /\ inner' = WithWorkerToWorker(inner, worker_id, handler)
          /\ look' = NoteRegistration(look, <<"w2w", worker_id>>, handler)
          /\ lastReg' = [lastReg EXCEPT ![<<"w2w", worker_id>>] = handler]
    /\ UNCHANGED noops
    /\ Unlock(m)

shutdown(m) ==
    /\ mut[m].pc = "locked"
    /\ mut[m].call = "shutdown"
    /\ \/ /\ ShutdownReturnsEarly(inner)
          /\ noops' = noops + 1
          /\ UNCHANGED <<inner, look, lastReg>>
       \/ /\ ~ShutdownReturnsEarly(inner)
          /\ inner' = ShutdownInner(inner)
          /\ look' = NoteShutdown(look)
          /\ lastReg' = [t \in Targets |-> None]
          /\ UNCHANGED noops
    /\ Unlock(m)

\* ------------------------------------------------------------------ lookups

\* A task calls one of the three lookups.
StartLookup(l, W) ==
    /\ look[l].pc = "idle"
    /\ \E t \in TargetsOf(W) :
          look' = [look EXCEPT ![l] =
                      [IdleLookup EXCEPT
                          !.pc = "try", !.role = t[1], !.peer_id = t[2],
                          !.startShut = inner.shutdown,
                          !.startVal = lastReg[t]]]
    /\ UNCHANGED <<inner, lock, mut, calls, given_id, lastReg, noops, relay,
                 served, scrape>>

\* A lookup called on its own, outside a facade call.
get_handler(l, W) == StartLookup(l, W) /\ UNCHANGED face

\* `let inner = self.inner.read();`
ReadLock(l) ==
    /\ look[l].pc = "try"
    /\ CanRead(lock)
    /\ lock' = [lock EXCEPT !.readers = @ \cup {l}]
    /\ look' = [look EXCEPT ![l].pc = "read", ![l].attempts = @ + 1]
    /\ UNCHANGED <<inner, mut, calls, given_id, lastReg, noops, face, relay,
                 served, scrape>>

\* The inner block: return ShuttingDown, return the handler, or fall out of
\* the block (dropping the guard) into the sleep.
ReadBlock(l) ==
    /\ look[l].pc = "read"
    /\ LET r == ReadStep(inner, look[l].role, look[l].peer_id) IN
       \/ /\ r.kind = "ShuttingDown"
          /\ look' = [look EXCEPT ![l].pc = "done", ![l].result = r]
       \/ /\ r.kind = "Ok"
          /\ look' = [look EXCEPT
                        ![l].pc = "done", ![l].result = r,
                        ![l].readLast =
                            lastReg[<<look[l].role, look[l].peer_id>>]]
       \/ /\ r.kind = "None"
          /\ look' = [look EXCEPT ![l].pc = "sleep", ![l].sleeps = @ + 1]
    /\ lock' = [lock EXCEPT !.readers = ReadersAfterBlock(lock, l)]
    /\ UNCHANGED <<inner, mut, calls, given_id, lastReg, noops, face, relay,
                 served, scrape>>

\* The sleep ends and the loop goes to its next iteration, or ends.
Wake(l) ==
    /\ look[l].pc = "sleep"
    /\ look' = [look EXCEPT
                  ![l].i = @ + 1,
                  ![l].pc = IF LoopExhausted(look[l].i + 1)
                            THEN "exhausted" ELSE "try"]
    /\ UNCHANGED <<inner, lock, mut, calls, given_id, lastReg, noops, face,
                 relay, served, scrape>>

\* The error after the loop.  The primary lookup reads primary_peer_id
\* through a temporary read guard; the worker lookups take no guard.
Fail(l) ==
    /\ look[l].pc = "exhausted"
    /\ look[l].role = "w2p" => CanRead(lock)
    /\ look' = [look EXCEPT
                  ![l].pc = "done",
                  ![l].result =
                      NotStartedError(inner, look[l].role, look[l].peer_id)]
    /\ UNCHANGED <<inner, lock, mut, calls, given_id, lastReg, noops, face,
                 relay, served, scrape>>

\* --------------------------------------------------------------------- Next

\* One lookup against concurrent registrations and shutdowns.
Next ==
    \/ \E m \in WriterTasks : WriteLock(m, MaxCalls)
    \/ \E m \in WriterTasks : set_worker_to_primary_local_handler(m)
    \/ \E m \in WriterTasks : set_primary_to_worker_local_handler(m, Workers)
    \/ \E m \in WriterTasks : set_worker_to_worker_local_handler(m, Workers)
    \/ \E m \in WriterTasks : shutdown(m)
    \/ \E l \in SoloTasks : get_handler(l, Workers)
    \/ \E l \in SoloTasks : ReadLock(l)
    \/ \E l \in SoloTasks : ReadBlock(l)
    \/ \E l \in SoloTasks : Wake(l)
    \/ \E l \in SoloTasks : Fail(l)

Spec == Init /\ [][Next]_vars

\* Two lookups and two writers contending for the lock.
NextLock ==
    \/ \E m \in WriterTasks : WriteLock(m, MaxLockCalls)
    \/ \E m \in WriterTasks : set_worker_to_primary_local_handler(m)
    \/ \E m \in WriterTasks : set_primary_to_worker_local_handler(m, LockWorkers)
    \/ \E m \in WriterTasks : set_worker_to_worker_local_handler(m, LockWorkers)
    \/ \E m \in WriterTasks : shutdown(m)
    \/ \E l \in LookupTasks : get_handler(l, LockWorkers)
    \/ \E l \in LookupTasks : ReadLock(l)
    \/ \E l \in LookupTasks : ReadBlock(l)
    \/ \E l \in LookupTasks : Wake(l)
    \/ \E l \in LookupTasks : Fail(l)

\* The lock is contended the same way whatever identity new() was given.
InitLock == Init /\ given_id = "p1"

SpecLock == InitLock /\ [][NextLock]_vars

\* ------------------------------------------------------------ facade calls

Unit == [kind |-> "Ok", val |-> None]
Internal(text) == [kind |-> "Internal", val |-> text]

\* format!("{e:?}")
DebugText(e) == <<"Debug", e>>

\* Variant: the handler is not called once the client is shut down.
InvokeUnlessShutdown(in, handler, method, msg) ==
    IF in.shutdown THEN <<>>
    ELSE << [handler |-> handler, method |-> method, msg |-> msg,
             shutdown |-> in.shutdown] >>

\* `c.synchronize(Request::new(message))` and the two report calls: the
\* calls made on the handler found, each with the state of the shutdown
\* flag at that moment as history.
Invoke(in, handler, method, msg) ==
    << [handler |-> handler, method |-> method, msg |-> msg,
        shutdown |-> in.shutdown] >>

\* Variant: a failed forward reported as success.
ForwardResultSwallowed(reply) == Unit

\* `.await.map_err(|e| LocalClientError::Internal(format!("{e:?}")))?; Ok(())`
ForwardResult(reply) ==
    IF reply = "ok" THEN Unit ELSE Internal(DebugText(reply))

\* A facade call begins: it calls the lookup of its role.
BeginCall(l, method, role, W) ==
    /\ StartLookup(l, W)
    /\ look'[l].role = role
    /\ \E msg \in Messages :
          face' = [face EXCEPT ![l] =
                      [NoCall EXCEPT !.pc = "lookup", !.method = method,
                                     !.msg = msg]]

synchronize(l, W) ==
    /\ face[l].pc = "none"
    /\ BeginCall(l, "synchronize", "p2w", W)

report_our_batch(l) ==
    /\ face[l].pc = "none"
    /\ BeginCall(l, "report_our_batch", "w2p", {})

report_others_batch(l) ==
    /\ face[l].pc = "none"
    /\ BeginCall(l, "report_others_batch", "w2p", {})

\* The lookup has returned: `?` hands its error to the caller, otherwise the
\* handler is called once and its answer decides the result.
Forward(l) ==
    /\ face[l].pc = "lookup"
    /\ Done(l)
    /\ \/ /\ look[l].result.kind # "Ok"
          /\ face' = [face EXCEPT ![l].pc = "returned",
                                  ![l].ret = look[l].result]
       \/ /\ look[l].result.kind = "Ok"
          /\ \E reply \in {"ok"} \cup HandlerErrors :
                face' = [face EXCEPT
                           ![l].pc = "returned",
                           ![l].reply = reply,
                           ![l].sent = @ \o Invoke(inner, look[l].result.val,
                                                   face[l].method, face[l].msg),
                           ![l].ret = ForwardResult(reply)]
    /\ UNCHANGED <<clientVars, relay, served, scrape>>

\* One facade call against concurrent registrations and shutdowns.
NextFacade ==
    \/ \E m \in WriterTasks : WriteLock(m, MaxFacadeCalls)
    \/ \E m \in WriterTasks : set_worker_to_primary_local_handler(m)
    \/ \E m \in WriterTasks : set_primary_to_worker_local_handler(m, Workers)
    \/ \E m \in WriterTasks : set_worker_to_worker_local_handler(m, Workers)
    \/ \E m \in WriterTasks : shutdown(m)
    \/ \E l \in SoloTasks : synchronize(l, Workers)
    \/ \E l \in SoloTasks : report_our_batch(l)
    \/ \E l \in SoloTasks : report_others_batch(l)
    \/ \E l \in SoloTasks : ReadLock(l)
    \/ \E l \in SoloTasks : ReadBlock(l)
    \/ \E l \in SoloTasks : Wake(l)
    \/ \E l \in SoloTasks : Fail(l)
    \/ \E l \in SoloTasks : Forward(l)

SpecFacade == Init /\ [][NextFacade]_vars

Returned(l) == face[l].pc = "returned"

\* The scheduling the lookups rely on: the runtime resumes a task whose sleep
\* has ended and runs a task that can step; a call that holds the write
\* guard runs to its end; a task waiting for a read guard is granted it once
\* writers stop holding the lock for good or, the lock being fair, if it is
\* free again and again.
Fairness ==
    /\ \A l \in SoloTasks :
          /\ SF_vars(ReadLock(l))
          /\ WF_vars(ReadBlock(l))
          /\ WF_vars(Wake(l))
          /\ SF_vars(Fail(l))
    /\ \A m \in WriterTasks :
          /\ WF_vars(set_worker_to_primary_local_handler(m))
          /\ WF_vars(set_primary_to_worker_local_handler(m, Workers))
          /\ WF_vars(set_worker_to_worker_local_handler(m, Workers))
          /\ WF_vars(shutdown(m))

NextFair ==
    \/ \E m \in WriterTasks : WriteLock(m, MaxFairCalls)
    \/ \E m \in WriterTasks : set_worker_to_primary_local_handler(m)
    \/ \E m \in WriterTasks : set_primary_to_worker_local_handler(m, Workers)
    \/ \E m \in WriterTasks : set_worker_to_worker_local_handler(m, Workers)
    \/ \E m \in WriterTasks : shutdown(m)
    \/ \E l \in SoloTasks : get_handler(l, Workers)
    \/ \E l \in SoloTasks : ReadLock(l)
    \/ \E l \in SoloTasks : ReadBlock(l)
    \/ \E l \in SoloTasks : Wake(l)
    \/ \E l \in SoloTasks : Fail(l)

SpecFair == Init /\ [][NextFair]_vars /\ Fairness

\* ------------------------------------------------------- the histogram relay

MaxSubmits == 3
MaxExports == 3

\* MetricFamily values that are submitted: two histogram families and a
\* counter family whose metric carries a counter value.
FamH1 ==
    [ name |-> "lat", help |-> "latency", field_type |-> "HISTOGRAM",
      metric |-> << [ label |-> "a", histogram |-> "hist1",
                      counter |-> "default", timestamp_ms |-> "t1" ] >> ]

FamH2 ==
    [ name |-> "lat", help |-> "latency", field_type |-> "HISTOGRAM",
      metric |-> << [ label |-> "a", histogram |-> "hist2",
                      counter |-> "default", timestamp_ms |-> "t2" ] >> ]

FamC ==
    [ name |-> "req", help |-> "requests", field_type |-> "COUNTER",
      metric |-> << [ label |-> "b", histogram |-> "default",
                      counter |-> "c5", timestamp_ms |-> "t1" ] >> ]

Batches == { <<FamH1>>, <<FamC, FamH2>>, <<>> }

\* VecDeque::push_back and VecDeque::pop_front; the popped item is a
\* sequence of length 0 (None) or 1 (Some).
\* Variant: the batch is put at the front.
PushFront(q, data) == <<data>> \o q

PushBack(q, data) == Append(q, data)

\* Variant: the newest batch is taken.
PopBack(q) ==
    IF q = <<>> THEN [item |-> <<>>, rest |-> <<>>]
    ELSE [item |-> <<q[Len(q)]>>, rest |-> SubSeq(q, 1, Len(q) - 1)]

PopFront(q) ==
    IF q = <<>> THEN [item |-> <<>>, rest |-> <<>>]
    ELSE [item |-> <<Head(q)>>, rest |-> Tail(q)]

\* extract_histograms: each metric is rebuilt from a default Metric with
\* label, histogram and timestamp_ms copied; each family keeps name, help
\* and type.
ExtractMetric(m) ==
    [ label |-> m.label, histogram |-> m.histogram,
      counter |-> "default", timestamp_ms |-> m.timestamp_ms ]

ExtractFamily(mf) ==
    [ name |-> mf.name, help |-> mf.help, field_type |-> mf.field_type,
      metric |-> [i \in DOMAIN mf.metric |-> ExtractMetric(mf.metric[i])] ]

extract_histograms(data) ==
    [i \in DOMAIN data |-> ExtractFamily(data[i])]

\* The text exposition of a list of families: per family a HELP line, a
\* TYPE line and one sample line per metric, which shows the value that
\* belongs to the family's type.
SampleLine(mf, m) ==
    << mf.name, m.label,
       IF mf.field_type = "HISTOGRAM" THEN m.histogram ELSE m.counter,
       m.timestamp_ms >>

encode_to_string(families) ==
    [i \in DOMAIN families |->
        << <<"# HELP", families[i].name, families[i].help>>,
           <<"# TYPE", families[i].name, families[i].field_type>>,
           [j \in DOMAIN families[i].metric |->
               SampleLine(families[i], families[i].metric[j])] >>]

\* anyhow errors of export, and the Ok text.
Bail(text) == [kind |-> "Err", val |-> <<text>>]
NoData == Bail("no data in HistogramRelay to scrape")
EncodeError == Bail("error")
ExportOk(data) == [kind |-> "Ok", val |-> encode_to_string(extract_histograms(data))]

\* The results export can produce for what pop_front gave: the encoder may
\* fail on any input.
ExportResults(item) ==
    IF item = <<>> THEN {NoData}
    ELSE {ExportOk(item[1]), EncodeError}

\* The response of the /metrics handler for a result of export.
Response(result) ==
    IF result.kind = "Ok"
    THEN [status |-> 200, body |-> result.val]
    ELSE [status |-> 500,
          body |-> <<"unable to pop metrics from HistogramRelay">>]

\* HistogramRelay::submit
submit(data) ==
    /\ Len(served.submitted) < MaxSubmits
    /\ relay' = PushBack(relay, data)
    /\ served' = [served EXCEPT !.submitted = Append(@, data)]
    /\ UNCHANGED <<clientVars, face, scrape>>

\* HistogramRelay::export, called by the /metrics handler of request t: the
\* pop under the write guard, then the encoding of what was popped.
export(t) ==
    /\ scrape[t].pc = "idle"
    /\ served.exports < MaxExports
    /\ relay' = PopFront(relay).rest
    /\ \E result \in ExportResults(PopFront(relay).item) :
          scrape' = [scrape EXCEPT ![t] =
                        [ pc     |-> "exported",
                          result |-> result,
                          npop   |-> Len(served.popped),
                          nsub   |-> Len(served.submitted) ]]
    /\ served' = [served EXCEPT !.popped = @ \o PopFront(relay).item,
                                !.exports = @ + 1]
    /\ UNCHANGED <<clientVars, face>>

\* metrics: the response is built from the result of export.
metrics(t) ==
    /\ scrape[t].pc = "exported"
    /\ served' = [served EXCEPT !.responses =
                     @ \cup {[ status |-> Response(scrape[t].result).status,
                               body   |-> Response(scrape[t].result).body,
                               result |-> scrape[t].result,
                               npop   |-> scrape[t].npop,
                               nsub   |-> scrape[t].nsub ]}]
    /\ scrape' = [scrape EXCEPT ![t] = IdleScrape]
    /\ UNCHANGED <<clientVars, face, relay>>

NextRelay ==
    \/ \E data \in Batches : submit(data)
    \/ \E t \in ScrapeTasks : export(t)
    \/ \E t \in ScrapeTasks : metrics(t)

\* The relay does not depend on the client's identity.
InitRelay == Init /\ given_id = "p1"

SpecRelay == InitRelay /\ [][NextRelay]_vars

\* ------------------------------------------------------------------ claims

\* C1: whenever the shutdown flag is true, worker_to_primary_handler is
\* absent and both handler maps are empty.
C1_ShutdownImpliesEmpty == inner.shutdown => ContainersEmpty(inner)

\* C2: a lookup that starts once shutdown has completed never suspends, takes
\* the read guard at most once, and returns ShuttingDown from that first
\* attempt, also when its target was registered again after the shutdown.
C2_LookupAfterShutdownFailsAtOnce ==
    \A l \in LookupTasks :
        look[l].startShut =>
            /\ look[l].pc \notin {"sleep", "exhausted"}
            /\ look[l].sleeps = 0
            /\ look[l].attempts <= 1
            /\ Done(l) => /\ look[l].result = ShuttingDown
                          /\ look[l].attempts = 1

C2_Witness ==
    \E l \in LookupTasks :
        /\ Done(l)
        /\ look[l].startShut
        /\ look[l].startVal # None
        /\ look[l].result = ShuttingDown

\* C3: the shutdown flag starts false, never goes from true to false, and
\* changes only in the step in which a shutdown call runs its body.
C3_ShutdownOneWay ==
    /\ inner.shutdown = FALSE
    /\ [][ /\ inner.shutdown => inner'.shutdown
           /\ inner'.shutdown # inner.shutdown =>
                 \E m \in WriterTasks :
                    /\ mut[m].pc = "locked"
                    /\ mut[m].call = "shutdown"
                    /\ mut'[m].pc = "idle" ]_vars

C3_Witness ==
    /\ inner.shutdown
    /\ ~ContainersEmpty(inner)
    /\ noops > 0

\* C4: a lookup that is not inside its read block (in particular one that
\* is suspended between attempts) holds no read guard, so that with no
\* lookup inside its block and no writer inside a call the write guard can
\* be taken.
C4_NoGuardAcrossSleep ==
    /\ \A l \in LookupTasks : look[l].pc # "read" => l \notin lock.readers
    /\ (lock.writers = {} /\ \A l \in LookupTasks : look[l].pc # "read")
          => CanWrite(lock)

C4_Witness ==
    /\ \A l \in LookupTasks : look[l].pc = "sleep"
    /\ \E m \in WriterTasks : mut[m].pc = "locked" /\ m \in lock.writers

\* C5: at most one task is inside a registration or shutdown call, no lookup
\* is inside its read block while one is, and the guards held are exactly
\* those of the tasks inside a read block or a mutating call.
C5_Serialized ==
    /\ Cardinality(lock.writers) <= 1
    /\ lock.writers # {} => lock.readers = {}
    /\ \A l \in LookupTasks : look[l].pc = "read" <=> l \in lock.readers
    /\ \A m \in WriterTasks : mut[m].pc = "locked" <=> m \in lock.writers

C5_Witness ==
    /\ \E m \in WriterTasks : mut[m].pc = "locked" /\ mut[m].call = "shutdown"
    /\ \E l \in LookupTasks : look[l].pc = "try" /\ look[l].attempts > 0
    /\ \E l \in LookupTasks : look[l].pc = "try" /\ look[l].attempts = 0

\* C6: a lookup for a target that holds handler H when the lookup starts, on
\* a client that is not shut down, with no registration for that target and
\* no shutdown until the lookup returns, returns H from its first attempt
\* without suspending.
C6_RegisteredThenFound ==
    \A l \in LookupTasks :
        ( /\ Done(l)
          /\ look[l].startVal # None
          /\ ~look[l].startShut
          /\ look[l].regs = 0
          /\ ~look[l].shut )
        => /\ look[l].result = Ok(look[l].startVal)
           /\ look[l].attempts = 1
           /\ look[l].sleeps = 0

C6_Witness ==
    \E l \in LookupTasks :
        /\ Done(l)
        /\ look[l].startVal = "hB"
        /\ look[l].regs = 0
        /\ look[l].result = Ok("hB")

\* C7: a lookup whose target is absent when it starts and is not registered
\* while it runs, with no shutdown, returns after exactly 10 attempts and at
\* least 9 suspensions with WorkerNotStarted(the requested identity), or for
\* the primary lookup PrimaryNotStarted(the identity the client was
\* constructed with); and no NotStarted error is returned in fewer attempts.
C7_NeverRegisteredFails ==
    \A l \in LookupTasks :
        /\ ( /\ Done(l)
             /\ look[l].startVal = None
             /\ ~look[l].startShut
             /\ look[l].regs = 0
             /\ ~look[l].shut )
           => /\ look[l].result =
                    IF look[l].role = "w2p"
                    THEN PrimaryNotStarted(given_id)
                    ELSE WorkerNotStarted(look[l].peer_id)
              /\ look[l].attempts = 10
              /\ look[l].sleeps >= 9
        /\ ( /\ Done(l)
             /\ look[l].result.kind \in {"WorkerNotStarted",
                                         "PrimaryNotStarted"} )
           => look[l].attempts = 10

C7_Witness ==
    \E l \in LookupTasks :
        /\ Done(l)
        /\ look[l].regs = 0
        /\ look[l].result = PrimaryNotStarted(given_id)
        /\ look[l].attempts = 10

\* C8: a lookup whose target is absent when it starts, and for which a
\* handler is registered before it takes the read guard for the 10th time,
\* with no shutdown, returns the handler registered (the latest one, if
\* several were) and not a NotStarted error.
C8_RegisteredWhileWaiting ==
    \A l \in LookupTasks :
        ( /\ Done(l)
          /\ look[l].startVal = None
          /\ ~look[l].startShut
          /\ ~look[l].shut
          /\ look[l].regSince # None )
        => look[l].result = Ok(look[l].regSince)

C8_Witness ==
    \E l \in LookupTasks :
        /\ Done(l)
        /\ look[l].startVal = None
        /\ look[l].regSince # None
        /\ look[l].result = Ok(look[l].regSince)
        /\ look[l].attempts = 10

\* C9: the handler a lookup returns is the one registered last for its
\* target at the moment of the lookup's successful read: after A and then B
\* were registered, a read made after B's registration returns B.
C9_LastRegistrationWins ==
    \A l \in LookupTasks :
        (Done(l) /\ look[l].result.kind = "Ok")
        => look[l].result.val = look[l].readLast

C9_Witness ==
    \E l \in LookupTasks :
        /\ Done(l)
        /\ look[l].startVal = "hA"
        /\ ~look[l].startShut
        /\ look[l].result = Ok("hB")

\* C10: a shutdown call that finds the shutdown flag already true leaves the
\* whole Inner struct (flag, primary identity, the three containers) as it
\* was.
C10_ShutdownIdempotent ==
    [][ \A m \in WriterTasks :
           ( /\ mut[m].pc = "locked"
             /\ mut[m].call = "shutdown"
             /\ inner.shutdown
             /\ mut'[m].pc = "idle" )
           => inner' = inner ]_vars

C10_Witness ==
    /\ noops > 0
    /\ inner.shutdown
    /\ ~ContainersEmpty(inner)
    /\ calls = MaxCalls

\* C11: a lookup never takes the read guard more than 10 times, and a
\* lookup that has started returns (a handler, ShuttingDown or a NotStarted
\* error) whatever registrations, overwrites and shutdowns run beside it.
C11_LookupTerminates ==
    /\ [](\A l \in LookupTasks : look[l].attempts <= 10 /\ look[l].sleeps <= 10)
    /\ \A l \in LookupTasks :
          (look[l].pc \in {"try", "read", "sleep", "exhausted"})
             ~> ( /\ Done(l)
                  /\ look[l].result.kind \in
                        {"Ok", "ShuttingDown", "WorkerNotStarted",
                         "PrimaryNotStarted"} )

C11_Witness ==
    \E l \in LookupTasks :
        /\ Done(l)
        /\ look[l].attempts = 10
        /\ look[l].regs = 1
        /\ calls = MaxFairCalls

\* C12: synchronize(W, M) on a client where handler H is registered for W
\* as primary-to-worker handler, with no shutdown and no other registration
\* for W while the call looks H up, calls H's synchronize once with M and
\* nothing else, and returns Ok when H does.
C12_SynchronizeReachesHandler ==
    \A l \in LookupTasks :
        ( /\ Returned(l)
          /\ face[l].method = "synchronize"
          /\ look[l].startVal # None
          /\ ~look[l].startShut
          /\ look[l].regs = 0
          /\ ~look[l].shut )
        => /\ Len(face[l].sent) = 1
           /\ face[l].sent[1].handler = look[l].startVal
           /\ face[l].sent[1].method = "synchronize"
           /\ face[l].sent[1].msg = face[l].msg
           /\ face[l].reply = "ok" => face[l].ret = Unit

C12_Witness ==
    \E l \in LookupTasks :
        /\ Returned(l)
        /\ face[l].method = "synchronize"
        /\ face[l].msg = "mB"
        /\ face[l].ret = Unit
        /\ look[l].peer_id = "w1"
        /\ look[l].regs = 0
        /\ Len(face[l].sent) = 1
        /\ face[l].sent[1].handler = "hA"
        /\ lastReg[<<"p2w", "w2">>] = "hB"

\* C13: a facade call returns Ok, ShuttingDown, a NotStarted error or
\* Internal; an error of the lookup is returned as it is with no handler
\* called; Ok and Internal come only from a lookup that found a handler, by
\* the answer of the one call made on it; no call makes a second one.
C13_OneResolveThenForward ==
    \A l \in LookupTasks :
        /\ Len(face[l].sent) <= 1
        /\ ~Returned(l) => face[l].sent = <<>>
        /\ Returned(l) =>
              /\ face[l].ret.kind \in
                    {"Ok", "ShuttingDown", "WorkerNotStarted",
                     "PrimaryNotStarted", "Internal"}
              /\ look[l].result.kind # "Ok" =>
                    /\ face[l].ret = look[l].result
                    /\ face[l].sent = <<>>
              /\ look[l].result.kind = "Ok" => Len(face[l].sent) = 1
              /\ face[l].ret.kind = "Internal" <=>
                    /\ look[l].result.kind = "Ok"
                    /\ face[l].reply \in HandlerErrors
              /\ face[l].ret = Unit <=>
                    /\ look[l].result.kind = "Ok"
                    /\ face[l].reply = "ok"

C13_Witness ==
    \E l \in LookupTasks :
        /\ Returned(l)
        /\ face[l].ret.kind = "Internal"
        /\ Len(face[l].sent) = 1

\* C14: primary_peer_id always equals the identity given to new(), and a
\* report_our_batch / report_others_batch call on a client whose
\* worker-to-primary handler was never registered, with no shutdown, returns
\* PrimaryNotStarted(that identity) after 10 attempts, calling no handler.
C14_PrimaryIdentityFixed ==
    /\ inner.primary_peer_id = given_id
    /\ \A l \in LookupTasks :
          ( /\ Returned(l)
            /\ face[l].method \in {"report_our_batch", "report_others_batch"}
            /\ look[l].startVal = None
            /\ ~look[l].startShut
            /\ look[l].regs = 0
            /\ ~look[l].shut )
          => /\ face[l].ret = PrimaryNotStarted(given_id)
             /\ look[l].attempts = 10
             /\ face[l].sent = <<>>

C14_Witness ==
    \E l \in LookupTasks :
        /\ Returned(l)
        /\ face[l].method = "report_our_batch"
        /\ face[l].ret = PrimaryNotStarted("p2")
        /\ look[l].attempts = 10
        /\ calls = MaxFacadeCalls
        /\ inner.shutdown

\* C16: once a shutdown has taken effect while a lookup was under way, the
\* lookup's next read block ends it with ShuttingDown (no sleep and no
\* further attempt follow), and the lookup never returns a handler.
C16_ShutdownEndsLookup ==
    /\ [](\A l \in LookupTasks :
             (look[l].shut /\ Done(l)) => look[l].result.kind # "Ok")
    /\ [][ \A l \in LookupTasks :
              (look[l].shut /\ look[l].pc = "read" /\ look'[l] # look[l])
              => /\ look'[l].pc = "done"
                 /\ look'[l].result = ShuttingDown
                 /\ look'[l].attempts = look[l].attempts
                 /\ look'[l].sleeps = look[l].sleeps ]_vars

C16_Witness ==
    \E l \in LookupTasks :
        /\ Done(l)
        /\ look[l].shut
        /\ look[l].result = ShuttingDown
        /\ look[l].attempts = 5
        /\ look[l].sleeps = 4

\* C17: a lookup returns a NotStarted error exactly when all 10 of its read
\* blocks fell through to the sleep (flag false, key absent); what is
\* registered or shut down after the 10th read block does not change that.
C17_NotStartedIffTenMisses ==
    \A l \in LookupTasks :
        Done(l) =>
            ( look[l].result.kind \in {"WorkerNotStarted", "PrimaryNotStarted"}
              <=> (look[l].attempts = 10 /\ look[l].sleeps = 10) )

C17_Witness ==
    \E l \in LookupTasks :
        /\ Done(l)
        /\ look[l].result.kind = "WorkerNotStarted"
        /\ look[l].regs = 1
        /\ look[l].regSince = None
        /\ look[l].shut

\* C18: a registration call changes the one entry it names (or the
\* worker-to-primary slot) and nothing else of Inner; and a lookup whose own
\* target is absent and not registered while it runs never returns a
\* handler, whatever is registered under other identities or roles.
C18_RegistrationFrame ==
    /\ [](\A l \in LookupTasks :
             ( /\ Done(l)
               /\ look[l].startVal = None
               /\ look[l].regs = 0 )
             => look[l].result.kind # "Ok")
    /\ [][ \A m \in WriterTasks :
              (mut[m].pc = "locked" /\ mut'[m].pc = "idle") =>
                 /\ mut[m].call = "set_worker_to_primary" =>
                       \E h \in Handlers :
                          inner' = [inner EXCEPT
                                      !.worker_to_primary_handler = h]
                 /\ mut[m].call = "set_primary_to_worker" =>
                       \E w \in Workers, h \in Handlers :
                          inner' = [inner EXCEPT
                                      !.primary_to_own_worker_handler[w] = h]
                 /\ mut[m].call = "set_worker_to_worker" =>
                       \E w \in Workers, h \in Handlers :
                          inner' = [inner EXCEPT
                                      !.worker_to_own_worker_handler[w] = h]
         ]_vars

C18_Witness ==
    \E l \in LookupTasks :
        /\ Done(l)
        /\ look[l].role = "p2w"
        /\ look[l].peer_id = "w1"
        /\ look[l].regs = 0
        /\ look[l].result = WorkerNotStarted("w1")
        /\ inner.worker_to_own_worker_handler["w1"] # None
        /\ inner.primary_to_own_worker_handler["w2"] # None
        /\ inner.primary_to_own_worker_handler["w1"] = None

\* C19: a facade call whose lookup found a handler calls that handler once
\* with its message, also when a shutdown took effect after the lookup's
\* read and before the call, so that the handler is called while the
\* shutdown flag is true.
C19_ForwardAfterShutdown ==
    \A l \in LookupTasks :
        (Returned(l) /\ look[l].result.kind = "Ok")
        => /\ Len(face[l].sent) = 1
           /\ face[l].sent[1].handler = look[l].readLast
           /\ face[l].sent[1].msg = face[l].msg
           /\ face[l].sent[1].method = face[l].method

C19_Witness ==
    \E l \in LookupTasks :
        /\ Returned(l)
        /\ look[l].result.kind = "Ok"
        /\ Len(face[l].sent) = 1
        /\ face[l].sent[1].shutdown
        /\ inner.shutdown
        /\ ContainersEmpty(inner)

\* The text export gives for a batch when the encoder succeeds.
TextOf(data) == encode_to_string(extract_histograms(data))

\* C15 as stated: an export made after at least one submit returns the
\* batch submitted last (its text, unless the encoder failed), also when an
\* earlier export already returned it.
C15_MostRecentServed ==
    \A r \in served.responses :
        r.nsub > 0 =>
            \/ r.result = EncodeError
            \/ /\ r.result.kind = "Ok"
               /\ r.status = 200
               /\ r.body = TextOf(served.submitted[r.nsub])

\* C15 amended: an export returns the oldest batch not yet exported (its
\* text with status 200, or an encoder error) and removes it from the
\* buffer; a further export returns the batch submitted after that one, and
\* an export with no batch left fails with status 500.
C15_OldestServedAndRemoved ==
    /\ Len(relay) = Len(served.submitted) - Len(served.popped)
    /\ \A r \in served.responses :
          IF r.npop < r.nsub
          THEN \/ /\ r.result.kind = "Ok"
                  /\ r.status = 200
                  /\ r.body = TextOf(served.submitted[r.npop + 1])
               \/ /\ r.result = EncodeError
                  /\ r.status = 500
          ELSE /\ r.result = NoData
               /\ r.status = 500

C15_Witness ==
    \E r, q \in served.responses :
        /\ r.nsub = 2 /\ q.nsub = 2
        /\ r.npop = 0 /\ q.npop = 1
        /\ r.status = 200 /\ q.status = 200
        /\ r.body = TextOf(served.submitted[1])
        /\ q.body = TextOf(served.submitted[2])
        /\ r.body # q.body

\* C20: the batches popped so far are the first batches submitted, each
\* once and in submission order, and the buffer holds the rest in order; an
\* export that finds the buffer empty gets the no-data error and leaves
\* the buffer empty.
C20_FifoConsumed ==
    /\ [](/\ Len(served.popped) <= Len(served.submitted)
          /\ served.popped = SubSeq(served.submitted, 1, Len(served.popped))
          /\ relay = SubSeq(served.submitted, Len(served.popped) + 1,
                            Len(served.submitted)))
    /\ [][ \A t \in ScrapeTasks :
              (relay = <<>> /\ scrape[t].pc = "idle"
                            /\ scrape'[t].pc = "exported")
              => /\ relay' = <<>>
                 /\ scrape'[t].result = NoData
                 /\ served'.popped = served.popped ]_vars

C20_Witness ==
    /\ Len(served.popped) = 2
    /\ served.popped[1] # served.popped[2]
    /\ relay # <<>>
    /\ \E r \in served.responses :
          /\ r.result = NoData
          /\ r.status = 500
          /\ r.nsub = 1
          /\ r.npop = 1

====
